---- MODULE Spec2Model ----
(***************************************************************************)
(* Echo Audit: the deterministic scoring engine (utils/scoring, found as   *)
(* src/unnamed/part_001) and the account, session and project/audit        *)
(* repository (src/services/storage.ts) over the key-value store.          *)
(*                                                                         *)
(* JavaScript values that the code computes with are tagged records        *)
(* [t, v]: a number is Num(n); NaN, undefined, null and an inherited       *)
(* Object.prototype member are values of their own, so that arithmetic and *)
(* JSON serialisation behave as the runtime does.  Strings that a regular  *)
(* expression or a replace() inspects are sequences of one-character       *)
(* strings.  A timestamp is the clock reading it was taken from (the ISO    *)
(* string of a Date orders as its reading does); a report's analyzed_at    *)
(* and the free-text fields of a violation or a project are read by none   *)
(* of the modelled operations and are left out of the records.             *)
(***************************************************************************)
EXTENDS Integers, Sequences, FiniteSets, TLC

VARIABLES
    violations,     \* AuditWorkspace: the violation list returned by runAudit
    report,         \* AuditWorkspace: the report generateAuditReport built from it
    projects,       \* store keys project:{projectId}
    userProjects,   \* store keys user_projects:{userId}
    audits,         \* store keys audit:{auditId}
    projectAudits,  \* store keys project_audits:{projectId}
    nextId,         \* number of IDs generated so far (Date.now()/Math.random() IDs are fresh)
    result,         \* outcome of the last repository call: what it returned or threw
    twin,           \* after a successful saveAudit: the report it was given, and the record the
                    \* same call persists for the twin candidate; NoValue after any other call
    now,            \* the clock: what Date.now() and new Date() read
    savedVersions,  \* per stored project: the auditVersions its saveAudit calls returned, in order
    users,          \* store keys user:{userId}
    userEmails,     \* store keys user_email:{email}
    loginAttempts,  \* the in-memory Map loginAttempts
    session,        \* store key current_session
    calls           \* the saveAudit calls that run step by step: where each one is between
                    \* its awaits, and what it holds in its local variables

\* The account and session state.
authVars == <<users, userEmails, loginAttempts, session>>

\* The project and audit keys with the bookkeeping of their IDs.
repoVars == <<projects, userProjects, audits, projectAudits, nextId, savedVersions>>

vars == <<violations, report, projects, userProjects, audits, projectAudits,
          nextId, result, twin, now, savedVersions, authVars, calls>>

storeVars == <<projects, userProjects, audits, projectAudits, nextId, result, twin,
               now, savedVersions, authVars, calls>>

(***************************************************************************)
(* Bounds of the model.                                                    *)
(***************************************************************************)
MaxAppend == 2      \* violations appended to the initial list (scoring specification)
MaxCritical == 7    \* critical violations in the initial list (scoring specification)
MaxIds == 3         \* projects created plus audits saved
MaxTime == 1        \* clock readings after the first
MaxUsers == 2       \* accounts created
MaxCalls == 2       \* saveAudit calls that run step by step
MaxNoteLen == 3     \* characters of a text that is sanitized

(***************************************************************************)
(* JavaScript values.                                                      *)
(***************************************************************************)
Num(n) == [t |-> "number", v |-> n]
NaN == [t |-> "NaN", v |-> 0]
Undefined == [t |-> "undefined", v |-> 0]
Null == [t |-> "null", v |-> 0]
\* A member every object literal inherits from Object.prototype
\* (constructor, toString, valueOf, hasOwnProperty, ...): a function, truthy.
InheritedMember == [t |-> "function", v |-> 0]

IsNumber(x) == x.t = "number"

\* a || b for the operands the code uses: undefined is falsy; 15, 8, 4, 2 and a
\* function are truthy.
JSOr(a, b) == IF a.t = "undefined" \/ a.t = "NaN" \/ a.t = "null" \/ (a.t = "number" /\ a.v = 0)
              THEN b ELSE a

\* a - b: ToNumber of a function is NaN, and NaN propagates.
JSMinus(a, b) == IF IsNumber(a) /\ IsNumber(b) THEN Num(a.v - b.v) ELSE NaN

\* Math.round: every number of the model is an integer, which Math.round returns
\* as it is; Math.round(NaN) is NaN.
MathRound(a) == IF IsNumber(a) THEN a ELSE NaN

\* Math.max(a, b): NaN if either argument is NaN.
MathMax(a, b) == IF IsNumber(a) /\ IsNumber(b)
                 THEN (IF a.v >= b.v THEN a ELSE b)
                 ELSE NaN

\* JSON.parse(JSON.stringify(x)) of a number-valued field: NaN is written as null.
JSONNumber(x) == IF IsNumber(x) THEN x ELSE Null

(***************************************************************************)
(* Violations: severity is the string found under the key "severity"       *)
(* ("undefined" when the key is missing: the property lookup coerces the   *)
(* key to that string); wcag_criterion is a sequence of characters.        *)
(***************************************************************************)
Severity == {"critical", "high", "medium", "low"}

\* Property names that an object literal inherits from Object.prototype.
ObjectPrototypeKeys == {"constructor", "toString", "valueOf", "hasOwnProperty"}

SeverityInputs == Severity \cup {"info", "undefined", "constructor"}

Crit(a, b, c) == <<a, ".", b, ".">> \o c

CriterionInputs ==
    { Crit("1", "1", <<"1">>),          \* 1.1.1  (Level A)
      Crit("1", "4", <<"3">>),          \* 1.4.3  (Level AA)
      Crit("1", "4", <<"6">>),          \* 1.4.6  (Level AAA)
      Crit("2", "4", <<"1", "0">>),     \* 2.4.10 (Level AAA)
      Crit("4", "1", <<"3">>) }         \* 4.1.3  (in none of the pattern sets)

Violation == [severity : SeverityInputs, wcag_criterion : CriterionInputs]

(***************************************************************************)
(* calculateAccessibilityScore                                             *)
(***************************************************************************)
\* weights[violation.severity]: an own key, an inherited member, or undefined.
weights(severity) ==
    CASE severity = "critical" -> Num(15)
      [] severity = "high" -> Num(8)
      [] severity = "medium" -> Num(4)
      [] severity = "low" -> Num(2)
      [] severity \in ObjectPrototypeKeys -> InheritedMember
      [] OTHER -> Undefined

\* violations.forEach(violation => { score -= weights[violation.severity] || 0; })
RECURSIVE forEachDeduct(_, _, _)
forEachDeduct(score, vs, i) ==
    IF i > Len(vs) THEN score
    ELSE forEachDeduct(JSMinus(score, JSOr(weights(vs[i].severity), Num(0))), vs, i + 1)

\* Faulty variant: Math.min where the code has Math.max.
calculateAccessibilityScoreMin(vs) ==
    LET score == MathRound(forEachDeduct(Num(100), vs, 1))
    IN  IF IsNumber(score) THEN (IF score.v <= 0 THEN score ELSE Num(0)) ELSE NaN

calculateAccessibilityScore(vs) ==
    MathMax(Num(0), MathRound(forEachDeduct(Num(100), vs, 1)))

(***************************************************************************)
(* determineWCAGCompliance                                                 *)
(***************************************************************************)
\* One alternative ^a\.b\.[cs] of a pattern: a sequence of character classes.
Alt(a, b, cs) == <<{a}, {"."}, {b}, {"."}, cs>>

LevelARegex ==
    { Alt("1", "1", {"1"}), Alt("1", "2", {"1", "2", "3"}), Alt("1", "3", {"1", "2", "3"}),
      Alt("1", "4", {"1"}), Alt("2", "1", {"1", "2"}), Alt("2", "2", {"1", "2"}),
      Alt("2", "3", {"1"}), Alt("2", "4", {"1", "2", "3", "4"}), Alt("3", "1", {"1"}),
      Alt("3", "2", {"1", "2"}), Alt("3", "3", {"1", "2"}), Alt("4", "1", {"1", "2"}) }

LevelAARegex ==
    { Alt("1", "2", {"4", "5"}), Alt("1", "4", {"3", "4", "5"}), Alt("2", "4", {"5", "6", "7"}),
      Alt("3", "1", {"2"}), Alt("3", "2", {"3", "4"}), Alt("3", "3", {"3", "4"}) }

LevelAAARegex ==
    { Alt("1", "2", {"6", "7", "8", "9"}), Alt("1", "4", {"6", "7", "8", "9"}),
      Alt("2", "2", {"3", "4", "5", "6"}), Alt("2", "3", {"2", "3"}),
      Alt("2", "4", {"8"}), Alt("2", "4", {"9"}), Alt("2", "4", {"1"}) \o <<{"0"}>>,
      Alt("3", "1", {"3", "4", "5", "6"}), Alt("3", "2", {"5"}), Alt("3", "3", {"5", "6"}) }

\* regex.test(s) for a pattern whose alternatives all start with ^ and none ends
\* with $: some alternative matches a prefix of s.
RegExpTest(regex, s) ==
    \E alt \in regex :
        /\ Len(s) >= Len(alt)
        /\ \A i \in 1..Len(alt) : s[i] \in alt[i]

checkLevel(vs, regex) == SelectSeq(vs, LAMBDA v : RegExpTest(regex, v.wcag_criterion))

\* Faulty variant: level_aa.pass looks at the Level-AA matches only.
determineWCAGComplianceAAOnly(vs) ==
    LET levelAViolations == checkLevel(vs, LevelARegex)
        levelAAViolations == checkLevel(vs, LevelAARegex)
    IN  [ level_a |-> [ pass |-> Len(levelAViolations) = 0,
                        violations |-> Len(levelAViolations) ],
          level_aa |-> [ pass |-> Len(levelAAViolations) = 0,
                         violations |-> Len(levelAAViolations) ],
          level_aaa |-> [ not_tested |-> TRUE ] ]

determineWCAGCompliance(vs) ==
    LET levelAViolations == checkLevel(vs, LevelARegex)
        levelAAViolations == checkLevel(vs, LevelAARegex)
    IN  [ level_a |-> [ pass |-> Len(levelAViolations) = 0,
                        violations |-> Len(levelAViolations) ],
          level_aa |-> [ pass |-> Len(levelAViolations) = 0 /\ Len(levelAAViolations) = 0,
                         violations |-> Len(levelAAViolations) ],
          level_aaa |-> [ not_tested |-> TRUE ] ]

(***************************************************************************)
(* generateAuditReport                                                     *)
(***************************************************************************)
\* violations.filter(v => v.severity === s).length
countSeverity(vs, s) == Len(SelectSeq(vs, LAMBDA v : v.severity = s))

generateAuditReport(vs) ==
    [ overall_score |-> calculateAccessibilityScore(vs),
      wcag_compliance |-> determineWCAGCompliance(vs),
      violations |-> vs,
      summary |-> [ total_violations |-> Len(vs),
                    critical |-> countSeverity(vs, "critical"),
                    high |-> countSeverity(vs, "high"),
                    medium |-> countSeverity(vs, "medium"),
                    low |-> countSeverity(vs, "low") ] ]

(***************************************************************************)
(* Scoring specification: the workspace analyses a violation list and      *)
(* builds its report (AuditWorkspace.startAudit); the list grows one       *)
(* violation at a time from an initial list of critical violations.        *)
(***************************************************************************)
CriticalViolation == [severity |-> "critical", wcag_criterion |-> Crit("1", "1", <<"1">>)]

InitialLists == { [i \in 1..n |-> CriticalViolation] : n \in 0..MaxCritical }

\* Number of violations of the list that follow its leading critical ones.
Appended(vs) ==
    LET lead == { n \in 0..Len(vs) : \A i \in 1..n : vs[i] = CriticalViolation }
    IN  Len(vs) - (CHOOSE n \in lead : \A m \in lead : m <= n)

(***************************************************************************)
(* The key-value store: each key family is a function from the IDs that    *)
(* have a value to the value JSON.parse returns for it.                    *)
(***************************************************************************)
Users == {"u1", "u2"}
\* The IDs a caller may name: those generated so far and one that never was.
ProjectIds == 1..(nextId.project + 1)
AuditIds == 1..(nextId.audit + 1)

EmptyMap == [k \in {} |-> 0]
Put(f, k, val) == [x \in DOMAIN f \cup {k} |-> IF x = k THEN val ELSE f[x]]
Remove(f, k) == [x \in DOMAIN f \ {k} |-> f[x]]

\* array.filter(id => id !== x)
\* Faulty variant: the filter keeps what it should drop.
FilterOutInverted(ids, x) == SelectSeq(ids, LAMBDA id : id = x)

FilterOut(ids, x) == SelectSeq(ids, LAMBDA id : id # x)

NoValue == [t |-> "undefined", v |-> 0]
NoSession == [t |-> "absent", v |-> 0]
\* A call that returns: only its value is observed.
Returned(op, val) == [op |-> "", error |-> "", value |-> val]
Threw(op, msg) == [op |-> op, error |-> msg, value |-> NoValue]

(***************************************************************************)
(* sanitizeInput: five replace() passes, in the source's order.            *)
(***************************************************************************)
RECURSIVE replaceAll(_, _, _)
replaceAll(s, ch, rep) ==
    IF Len(s) = 0 THEN <<>>
    ELSE (IF Head(s) = ch THEN rep ELSE <<Head(s)>>) \o replaceAll(Tail(s), ch, rep)

\* Faulty variant: the ampersand is escaped as well, after the other characters.
sanitizeInputEscapeAmpersand(input) ==
    LET s1 == replaceAll(input, "<", <<"&", "l", "t", ";">>)
        s2 == replaceAll(s1, ">", <<"&", "g", "t", ";">>)
        s3 == replaceAll(s2, "\"", <<"&", "q", "u", "o", "t", ";">>)
        s4 == replaceAll(s3, "'", <<"&", "#", "x", "2", "7", ";">>)
        s5 == replaceAll(s4, "/", <<"&", "#", "x", "2", "F", ";">>)
    IN  replaceAll(s5, "&", <<"&", "a", "m", "p", ";">>)

sanitizeInput(input) ==
    LET s1 == replaceAll(input, "<", <<"&", "l", "t", ";">>)
        s2 == replaceAll(s1, ">", <<"&", "g", "t", ";">>)
        s3 == replaceAll(s2, "\"", <<"&", "q", "u", "o", "t", ";">>)
        s4 == replaceAll(s3, "'", <<"&", "#", "x", "2", "7", ";">>)
    IN  replaceAll(s4, "/", <<"&", "#", "x", "2", "F", ";">>)

NotesInputs == { <<"<", "/", "'">> }

(***************************************************************************)
(* Projects                                                                *)
(***************************************************************************)
\* JSON.parse(JSON.stringify(project))
JSONProject(project) == [project EXCEPT !.latestScore = JSONNumber(@)]

getProject(projectId) ==
    IF projectId \in DOMAIN projects THEN projects[projectId] ELSE Null

\* { ...project, ...updates }
Spread(project, updates) ==
    [f \in DOMAIN project \cup DOMAIN updates |->
        IF f \in DOMAIN updates THEN updates[f] ELSE project[f]]

\* Faulty variant: updatedAt keeps its value.
updateProjectStoreKeepStamp(projectId, updates) ==
    Put(projects, projectId, JSONProject(Spread(getProject(projectId), updates)))

\* The projects map after updateProject(projectId, updates) on an existing project.
updateProjectStore(projectId, updates) ==
    Put(projects, projectId,
        JSONProject([Spread(getProject(projectId), updates) EXCEPT !.updatedAt = now]))

UpdateInputs == { [auditCount |-> 0, latestScore |-> Num(50)] }

CreateProject(userId) ==
    /\ nextId.project + nextId.audit < MaxIds
    /\ LET projectId == nextId.project + 1
           project == [ projectId |-> projectId, userId |-> userId,
                        createdAt |-> now, updatedAt |-> now,
                        auditCount |-> 0, latestScore |-> Num(0) ]
       IN  /\ projects' = Put(projects, projectId, JSONProject(project))
           /\ userProjects' =
                 IF userId \in DOMAIN userProjects
                 THEN Put(userProjects, userId, Append(userProjects[userId], projectId))
                 ELSE Put(userProjects, userId, <<projectId>>)
           /\ nextId' = [nextId EXCEPT !.project = projectId]
           /\ result' = Returned("createProject", project)
           /\ savedVersions' = Put(savedVersions, projectId, <<>>)
    /\ twin' = NoValue
    /\ UNCHANGED <<authVars, calls, violations, report, audits, projectAudits, now>>

UpdateProject(projectId, updates) ==
    /\ IF getProject(projectId) = Null
       THEN /\ result' = Threw("updateProject", "Project not found")
            /\ UNCHANGED projects
       ELSE /\ projects' = updateProjectStore(projectId, updates)
            /\ result' = Returned("updateProject", NoValue)
    /\ twin' = NoValue
    /\ UNCHANGED <<authVars, calls, violations, report, userProjects, audits, projectAudits, nextId,
                   now, savedVersions>>

(***************************************************************************)
(* Audits                                                                  *)
(***************************************************************************)
\* JSON.parse(JSON.stringify(audit))
JSONAudit(audit) ==
    [audit EXCEPT !.accessibilityScore = JSONNumber(@),
                  !.fullReport.overall_score = JSONNumber(@)]

\* Faulty variant: the record is built from the caller's report as it came.
newAuditRecordTrusting(auditId, projectId, userId, auditVersion, auditReport) ==
    [ auditId |-> auditId,
      projectId |-> projectId,
      userId |-> userId,
      auditVersion |-> auditVersion,
      timestamp |-> now,
      accessibilityScore |-> auditReport.overall_score,
      wcagCompliance |->
          [ levelA |-> auditReport.wcag_compliance.level_a.pass,
            levelAA |-> auditReport.wcag_compliance.level_aa.pass,
            levelAAA |-> ~auditReport.wcag_compliance.level_aaa.not_tested ],
      totalViolations |-> auditReport.summary.total_violations,
      violationsBySeverity |->
          [ critical |-> auditReport.summary.critical,
            high |-> auditReport.summary.high,
            medium |-> auditReport.summary.medium,
            low |-> auditReport.summary.low ],
      fullReport |-> auditReport,
      notes |-> <<>> ]

\* Faulty variant: levelAAA copies not_tested without negating it.
newAuditRecordAAAClaimed(auditId, projectId, userId, auditVersion, auditReport) ==
    LET deterministicReport == generateAuditReport(auditReport.violations)
    IN  [ auditId |-> auditId,
          projectId |-> projectId,
          userId |-> userId,
          auditVersion |-> auditVersion,
          timestamp |-> now,
          accessibilityScore |-> deterministicReport.overall_score,
          wcagCompliance |->
              [ levelA |-> deterministicReport.wcag_compliance.level_a.pass,
                levelAA |-> deterministicReport.wcag_compliance.level_aa.pass,
                levelAAA |-> deterministicReport.wcag_compliance.level_aaa.not_tested ],
          totalViolations |-> deterministicReport.summary.total_violations,
          violationsBySeverity |->
              [ critical |-> deterministicReport.summary.critical,
                high |-> deterministicReport.summary.high,
                medium |-> deterministicReport.summary.medium,
                low |-> deterministicReport.summary.low ],
          fullReport |-> deterministicReport,
          notes |-> <<>> ]

\* The AuditRecord saveAudit constructs from the caller's auditReport.
newAuditRecord(auditId, projectId, userId, auditVersion, auditReport) ==
    LET deterministicReport == generateAuditReport(auditReport.violations)
    IN  [ auditId |-> auditId,
          projectId |-> projectId,
          userId |-> userId,
          auditVersion |-> auditVersion,
          timestamp |-> now,
          accessibilityScore |-> deterministicReport.overall_score,
          wcagCompliance |->
              [ levelA |-> deterministicReport.wcag_compliance.level_a.pass,
                levelAA |-> deterministicReport.wcag_compliance.level_aa.pass,
                levelAAA |-> ~deterministicReport.wcag_compliance.level_aaa.not_tested ],
          totalViolations |-> deterministicReport.summary.total_violations,
          violationsBySeverity |->
              [ critical |-> deterministicReport.summary.critical,
                high |-> deterministicReport.summary.high,
                medium |-> deterministicReport.summary.medium,
                low |-> deterministicReport.summary.low ],
          fullReport |-> deterministicReport,
          notes |-> <<>> ]

\* audits.sort((a, b) => b.auditVersion - a.auditVersion): a stable sort.
RECURSIVE insertByVersion(_, _)
insertByVersion(sorted, a) ==
    IF Len(sorted) = 0 THEN <<a>>
    ELSE IF Head(sorted).auditVersion >= a.auditVersion
         THEN <<Head(sorted)>> \o insertByVersion(Tail(sorted), a)
         ELSE <<a>> \o sorted

RECURSIVE sortByVersionDesc(_)
sortByVersionDesc(s) ==
    IF Len(s) = 0 THEN <<>>
    ELSE insertByVersion(sortByVersionDesc(SubSeq(s, 1, Len(s) - 1)), s[Len(s)])

\* Faulty variant: the comparator is reversed.
sortByVersionAsc(s) ==
    LET d == sortByVersionDesc(s) IN [i \in 1..Len(d) |-> d[Len(d) + 1 - i]]

\* audits.sort((a, b) => b.auditVersion - a.auditVersion)
sortAudits(s) == sortByVersionDesc(s)

\* Faulty variant: one missing record ends the read with nothing.
getProjectAuditsAbortOnMissing(projectId) ==
    IF projectId \notin DOMAIN projectAudits THEN <<>>
    ELSE LET ids == projectAudits[projectId]
         IN  IF \E i \in 1..Len(ids) : ids[i] \notin DOMAIN audits THEN <<>>
             ELSE sortAudits([i \in 1..Len(ids) |-> audits[ids[i]]])

getProjectAudits(projectId) ==
    IF projectId \notin DOMAIN projectAudits THEN <<>>
    ELSE LET found == SelectSeq(projectAudits[projectId], LAMBDA id : id \in DOMAIN audits)
         IN  sortAudits([i \in 1..Len(found) |-> audits[found[i]]])

(***************************************************************************)
(* The reports a caller may hand to saveAudit: the report the workspace    *)
(* built, or one whose aggregates are forged.                              *)
(***************************************************************************)
V(severity, criterion) == [severity |-> severity, wcag_criterion |-> criterion]

CandidateLists ==
    { <<V("critical", Crit("1", "4", <<"3">>))>>,
      <<V("high", Crit("1", "1", <<"1">>)), V("info", Crit("1", "4", <<"6">>))>>,
      <<V("constructor", Crit("4", "1", <<"3">>))>> }

ForgedReport(vs) ==
    [ overall_score |-> Num(100),
      wcag_compliance |-> [ level_a |-> [pass |-> TRUE, violations |-> 0],
                            level_aa |-> [pass |-> TRUE, violations |-> 0],
                            level_aaa |-> [not_tested |-> FALSE] ],
      violations |-> vs,
      summary |-> [ total_violations |-> 0, critical |-> 0, high |-> 0,
                    medium |-> 0, low |-> 0 ] ]

CandidateReports ==
    { generateAuditReport(vs) : vs \in CandidateLists } \cup
    { ForgedReport(vs) : vs \in CandidateLists }

\* The candidate with the same violations and the other aggregates.
TwinOf(auditReport) ==
    IF auditReport = ForgedReport(auditReport.violations)
    THEN generateAuditReport(auditReport.violations)
    ELSE ForgedReport(auditReport.violations)

\* Faulty variant: the owner is compared first, on a project that may be missing.
saveAuditCheckOwnerFirst(project, userId) ==
    IF project = Null THEN "Unauthorized"
    ELSE IF project.userId # userId THEN "Unauthorized"
    ELSE ""

\* Faulty variant: the owner is not compared.
saveAuditCheckAnyUser(project, userId) ==
    IF project = Null THEN "Project not found" ELSE ""

\* The error saveAudit throws before it writes anything, "" if none.
saveAuditCheck(project, userId) ==
    IF project = Null THEN "Project not found"
    ELSE IF project.userId # userId THEN "Unauthorized"
    ELSE ""

\* Faulty variant: the version is the project's count, not one more.
nextAuditVersionNoIncrement(project) == project.auditCount

\* Faulty variant: the version is counted from the audits the project still has.
nextAuditVersionFromIndex(project) == Len(getProjectAudits(project.projectId)) + 1

\* The version saveAudit gives the new record.
nextAuditVersion(project) == project.auditCount + 1

\* saveAudit(projectId, userId, auditReport); the same call is evaluated beside it
\* for the twin candidate, from the same store.
SaveAudit(projectId, userId, auditReport) ==
    LET project == getProject(projectId)
        auditVersion == nextAuditVersion(project)
        auditId == nextId.audit + 1
        audit == newAuditRecord(auditId, projectId, userId, auditVersion, auditReport)
    IN
    /\ IF saveAuditCheck(project, userId) # ""
       THEN /\ result' = Threw("saveAudit", saveAuditCheck(project, userId))
            /\ twin' = NoValue
            /\ UNCHANGED <<projects, audits, projectAudits, nextId, savedVersions>>
       ELSE /\ nextId.project + nextId.audit < MaxIds
            /\ nextId' = [nextId EXCEPT !.audit = auditId]
            /\ projectAudits' =
                  IF projectId \in DOMAIN projectAudits
                  THEN Put(projectAudits, projectId, Append(projectAudits[projectId], auditId))
                  ELSE Put(projectAudits, projectId, <<auditId>>)
            /\ audits' = Put(audits, auditId, JSONAudit(audit))
            /\ projects' = updateProjectStore(projectId,
                              [ auditCount |-> auditVersion,
                                latestScore |-> audit.accessibilityScore ])
            /\ result' = Returned("saveAudit", audit)
            /\ savedVersions' = [savedVersions EXCEPT ![projectId] = Append(@, audit.auditVersion)]
            /\ twin' = [ auditReport |-> auditReport,
                         persisted |-> JSONAudit(newAuditRecord(auditId, projectId, userId,
                                                    auditVersion, TwinOf(auditReport))) ]
    /\ UNCHANGED <<authVars, calls, violations, report, userProjects, now>>

\* Faulty variant: the edit is stored as a new version of the audit.
withNotesAsNewVersion(audit, notes) ==
    [audit EXCEPT !.notes = sanitizeInput(notes), !.auditVersion = @ + 1]

\* audit.notes = sanitizeInput(notes)
withNotes(audit, notes) == [audit EXCEPT !.notes = sanitizeInput(notes)]

UpdateAuditNotes(auditId, notes) ==
    /\ IF auditId \notin DOMAIN audits
       THEN /\ result' = Threw("updateAuditNotes", "Not found")
            /\ UNCHANGED audits
       ELSE /\ audits' = Put(audits, auditId, JSONAudit(withNotes(audits[auditId], notes)))
            /\ result' = Returned("updateAuditNotes", NoValue)
    /\ twin' = NoValue
    /\ UNCHANGED <<authVars, calls, violations, report, projects, userProjects, projectAudits, nextId,
                   now, savedVersions>>

DeleteAudit(auditId, projectId) ==
    /\ audits' = Remove(audits, auditId)
    /\ projectAudits' =
          IF projectId \in DOMAIN projectAudits
          THEN Put(projectAudits, projectId, FilterOut(projectAudits[projectId], auditId))
          ELSE projectAudits
    /\ result' = Returned("deleteAudit", NoValue)
    /\ twin' = NoValue
    /\ UNCHANGED <<authVars, calls, violations, report, projects, userProjects, nextId, now, savedVersions>>

DeleteProject(projectId, userId) ==
    LET listed == getProjectAudits(projectId)
        deleted == { listed[i].auditId : i \in 1..Len(listed) }
    IN
    /\ projects' = Remove(projects, projectId)
    /\ projectAudits' = Remove(projectAudits, projectId)
    /\ audits' = [a \in DOMAIN audits \ deleted |-> audits[a]]
    /\ userProjects' =
          IF userId \in DOMAIN userProjects
          THEN Put(userProjects, userId, FilterOut(userProjects[userId], projectId))
          ELSE userProjects
    /\ result' = Returned("deleteProject", NoValue)
    /\ savedVersions' = Remove(savedVersions, projectId)
    /\ twin' = NoValue
    /\ UNCHANGED <<authVars, calls, violations, report, nextId, now>>

\* A call of getProjectAudits(projectId).
GetProjectAudits(projectId) ==
    /\ result' = [ op |-> "getProjectAudits", error |-> "",
                   value |-> getProjectAudits(projectId) ]
    /\ twin' = NoValue
    /\ UNCHANGED <<authVars, calls, violations, report, projects, userProjects, audits, projectAudits,
                   nextId, now, savedVersions>>

\* Time passes between two calls.
Tick ==
    /\ now < MaxTime
    /\ now' = now + 1
    /\ UNCHANGED <<authVars, calls, violations, report, projects, userProjects, audits, projectAudits,
                   nextId, result, twin, savedVersions>>

(***************************************************************************)
(* Accounts: createUser and loginUser.  An email is a sequence of          *)
(* characters; a password hash is the PBKDF2 digest of the password under  *)
(* the fixed salt, a value that names its password.                        *)
(***************************************************************************)
MAX_LOGIN_ATTEMPTS == 5
LOCKOUT_DURATION == 15 * 60 * 1000
SESSION_TIMEOUT == 24 * 60 * 60 * 1000

\* Faulty variant: the email is used as typed.
toLowerCaseAsTyped(str) == str

toLowerCase(str) ==
    [i \in 1..Len(str) |->
        CASE str[i] = "A" -> "a" [] str[i] = "B" -> "b" [] OTHER -> str[i]]

EmailInputs == { <<"a">>, <<"A">> }
Passwords == {"pw1", "pw2"}
DisplayNames == { <<"<", "D">> }

hashPassword(password) == <<"pbkdf2", "echo-audit-salt-v1", password>>

\* What the try block of createUser throws: the conflict when the email key is
\* stored, the error of storageAPI.get when it is not.
createUserThrown(emailKey) ==
    IF emailKey \in DOMAIN userEmails
    THEN "An account with this email already exists"
    ELSE "Not found"

\* The error that leaves the try/catch of createUser: its bare catch takes
\* every error the try block throws.
createUserCheck(emailKey) ==
    IF createUserThrown(emailKey) \in {"An account with this email already exists", "Not found"}
    THEN ""
    ELSE createUserThrown(emailKey)

CreateUser(email, password, displayName) ==
    LET emailKey == toLowerCase(email)
        userId == Cardinality(DOMAIN users) + 1
        user == [ userId |-> userId, email |-> toLowerCase(email),
                  passwordHash |-> hashPassword(password),
                  displayName |-> sanitizeInput(displayName),
                  createdAt |-> now, lastLoginAt |-> now ]
    IN
    /\ IF createUserCheck(emailKey) # ""
       THEN /\ result' = Threw("createUser", createUserCheck(emailKey))
            /\ UNCHANGED <<users, userEmails>>
       ELSE /\ Cardinality(DOMAIN users) < MaxUsers
            /\ users' = Put(users, userId, user)
            /\ userEmails' = Put(userEmails, emailKey, userId)
            /\ result' = Returned("createUser", user)
    /\ twin' = NoValue
    /\ UNCHANGED <<calls, violations, report, repoVars, now, loginAttempts, session>>

\* Faulty variant: the lockout still holds at the instant it runs out.
isLockedOutInclusive(attempts, clock) ==
    /\ attempts.count >= MAX_LOGIN_ATTEMPTS
    /\ clock - attempts.lastAttempt <= LOCKOUT_DURATION

\* The rate limit check: the counter is full and the lockout has not run out.
isLockedOut(attempts, clock) ==
    /\ attempts.count >= MAX_LOGIN_ATTEMPTS
    /\ clock - attempts.lastAttempt < LOCKOUT_DURATION

\* Faulty variant: the remaining time is rounded down to whole minutes.
minutesLeftFloor(timeSinceLast) == (LOCKOUT_DURATION - timeSinceLast) \div 60000

\* Math.ceil((LOCKOUT_DURATION - timeSinceLast) / 60000)
minutesLeft(timeSinceLast) == ((LOCKOUT_DURATION - timeSinceLast) + 59999) \div 60000

\* The attempts map after the rate limit check let the call pass: a full counter
\* whose lockout ran out is deleted.
afterLockout(attempts, emailLower) ==
    IF emailLower \in DOMAIN attempts /\ attempts[emailLower].count >= MAX_LOGIN_ATTEMPTS
    THEN Remove(attempts, emailLower)
    ELSE attempts

\* What the try block of loginUser throws, "" if it reaches its return.
loginThrown(usersMap, emailsMap, emailLower, password) ==
    IF emailLower \notin DOMAIN emailsMap THEN "Not found"
    ELSE IF emailsMap[emailLower] \notin DOMAIN usersMap THEN "Not found"
    ELSE IF hashPassword(password) # usersMap[emailsMap[emailLower]].passwordHash
         THEN "Invalid email or password"
    ELSE ""

\* Faulty variant: an attempt on an email without account is not counted.
failedAttemptKnownOnly(attempts, emailLower, clock, thrown) ==
    IF thrown = "Not found" THEN attempts
    ELSE Put(attempts, emailLower,
             [ count |-> (IF emailLower \in DOMAIN attempts
                          THEN attempts[emailLower].count ELSE 0) + 1,
               lastAttempt |-> clock ])

\* The catch block of loginUser: the failed attempt is counted.
failedAttempt(attempts, emailLower, clock, thrown) ==
    LET current == IF emailLower \in DOMAIN attempts THEN attempts[emailLower]
                   ELSE [count |-> 0, lastAttempt |-> 0]
    IN  Put(attempts, emailLower, [count |-> current.count + 1, lastAttempt |-> clock])

\* Faulty variant: a successful login keeps the counter.
clearAttemptsKept(attempts, emailLower) == attempts

\* loginAttempts.delete(emailLower) of a successful login.
clearAttempts(attempts, emailLower) == Remove(attempts, emailLower)

\* loginUser(email, password) on the given store, attempts map and clock: what
\* it returns or throws, and the user records and attempts map it leaves.
loginUser(usersMap, emailsMap, attempts, clock, email, password) ==
    LET emailLower == toLowerCase(email)
        passed == afterLockout(attempts, emailLower)
        thrown == loginThrown(usersMap, emailsMap, emailLower, password)
        user == [usersMap[emailsMap[emailLower]] EXCEPT !.lastLoginAt = clock]
    IN  IF emailLower \in DOMAIN attempts /\ isLockedOut(attempts[emailLower], clock)
        THEN [ result |-> [ op |-> "loginUser", error |-> "Too many login attempts",
                            value |-> Num(minutesLeft(clock - attempts[emailLower].lastAttempt)) ],
               users |-> usersMap, loginAttempts |-> attempts ]
        ELSE IF thrown # ""
        THEN [ result |-> Threw("loginUser", "Invalid email or password"),
               users |-> usersMap,
               loginAttempts |-> failedAttempt(passed, emailLower, clock, thrown) ]
        ELSE [ result |-> Returned("loginUser", user),
               users |-> Put(usersMap, user.userId, user),
               loginAttempts |-> clearAttempts(passed, emailLower) ]

\* The store a call with bad credentials is compared with: the one where the
\* email has no account if it has one here, and one where it has an account
\* with another password if it has none here.
Counterpart(emailLower, password) ==
    IF emailLower \in DOMAIN userEmails
    THEN [ users |-> users, userEmails |-> Remove(userEmails, emailLower) ]
    ELSE LET other == CHOOSE pw \in Passwords : pw # password
             userId == Cardinality(DOMAIN users) + 1
         IN  [ users |-> Put(users, userId,
                             [ userId |-> userId, email |-> emailLower,
                               passwordHash |-> hashPassword(other),
                               displayName |-> <<>>,
                               createdAt |-> 0, lastLoginAt |-> 0 ]),
               userEmails |-> Put(userEmails, emailLower, userId) ]

\* A call of loginUser; a call with bad credentials is evaluated beside it on
\* the counterpart store, from the same attempts map and clock.
LoginUser(email, password) ==
    LET emailLower == toLowerCase(email)
        out == loginUser(users, userEmails, loginAttempts, now, email, password)
        cp == Counterpart(emailLower, password)
        other == loginUser(cp.users, cp.userEmails, loginAttempts, now, email, password)
    IN
    /\ result' = out.result
    /\ users' = out.users
    /\ loginAttempts' = out.loginAttempts
    /\ twin' = IF loginThrown(users, userEmails, emailLower, password) # ""
               THEN [ email |-> emailLower, result |-> other.result,
                      loginAttempts |-> other.loginAttempts ]
               ELSE NoValue
    /\ UNCHANGED <<calls, violations, report, repoVars, now, userEmails, session>>

\* The emails typed into the login form: those of the sign-up form and one
\* that no account has.
LoginEmails == EmailInputs \cup { <<"b">> }

(***************************************************************************)
(* The session: the key current_session holds {userId, lastActivity,       *)
(* csrfToken}; the token is random and read by no operation.               *)
(***************************************************************************)
\* Faulty variant: the session ends at the timeout, not after it.
sessionExpiredAtTimeout(sessionData, clock) ==
    clock - sessionData.lastActivity >= SESSION_TIMEOUT

sessionExpired(sessionData, clock) == clock - sessionData.lastActivity > SESSION_TIMEOUT

\* setCurrentUser(userId), as the login and signup forms call it: with the
\* userId of the user just returned.
SetCurrentUser(userId) ==
    /\ session' = [userId |-> userId, lastActivity |-> now]
    /\ result' = Returned("setCurrentUser", NoValue)
    /\ twin' = NoValue
    /\ UNCHANGED <<calls, violations, report, repoVars, now, users, userEmails, loginAttempts>>

Logout ==
    /\ session' = NoSession
    /\ result' = Returned("logout", NoValue)
    /\ twin' = NoValue
    /\ UNCHANGED <<calls, violations, report, repoVars, now, users, userEmails, loginAttempts>>

\* The values of current_session that are no session object: a JSON string
\* (JSON.parse gives a string) and a plain string (JSON.parse throws); either
\* is taken as the userId.
LegacySession(format, userId) == [t |-> format, v |-> userId]
IsLegacy(sessionValue) ==
    "t" \in DOMAIN sessionValue /\ sessionValue.t \in {"jsonString", "plainString"}

GetCurrentUser ==
    /\ IF session = NoSession
       THEN /\ result' = [op |-> "getCurrentUser", error |-> "", value |-> Null]
            /\ UNCHANGED session
       ELSE IF IsLegacy(session)
       THEN /\ UNCHANGED session
            /\ result' = [ op |-> "getCurrentUser", error |-> "",
                           value |-> IF session.v \in DOMAIN users
                                     THEN users[session.v] ELSE Null ]
       ELSE IF sessionExpired(session, now)
       THEN /\ session' = NoSession
            /\ result' = [op |-> "getCurrentUser", error |-> "", value |-> Null]
       ELSE /\ session' = [userId |-> session.userId, lastActivity |-> now]
            /\ result' = [ op |-> "getCurrentUser", error |-> "",
                           value |-> IF session.userId \in DOMAIN users
                                     THEN users[session.userId] ELSE Null ]
    /\ twin' = NoValue
    /\ UNCHANGED <<calls, violations, report, repoVars, now, users, userEmails, loginAttempts>>

\* Time passes between two calls: d milliseconds, up to the horizon.
Elapse(d, horizon) ==
    /\ now + d <= horizon
    /\ now' = now + d
    /\ UNCHANGED <<calls, violations, report, repoVars, result, twin, authVars>>

(***************************************************************************)
(* saveAudit between its awaits.  An async function runs to its first      *)
(* await when it is called and then from one await to the next; a          *)
(* storageAPI call reads or writes the store at the moment it is called.   *)
(* Other calls run between two such steps, and a call that is interrupted  *)
(* (the page is closed) takes no further step.                             *)
(***************************************************************************)
Idle == [ pc |-> "idle", projectId |-> 0, userId |-> "", auditReport |-> NoValue,
          project |-> NoValue, audit |-> NoValue, auditIds |-> NoValue,
          emailLower |-> <<>>, password |-> "", now |-> 0, user |-> NoValue ]

\* The report the overlapping calls save.
OverlapReports == { generateAuditReport(<<V("critical", Crit("1", "4", <<"3">>))>>) }

\* saveAudit is called: getProject reads the project record (line 325).
SaveBegin(c, projectId, userId, auditReport) ==
    /\ calls[c].pc = "idle"
    /\ calls' = [calls EXCEPT ![c] =
                    [Idle EXCEPT !.pc = "checks", !.projectId = projectId, !.userId = userId,
                                 !.auditReport = auditReport,
                                 !.project = getProject(projectId)]]
    /\ UNCHANGED <<authVars, violations, report, repoVars, result, twin, now>>

\* Lines 326-358: the checks; the version, the ID and the record; the record is
\* written.
SavePersist(c) ==
    LET call == calls[c]
        auditId == nextId.audit + 1
        audit == newAuditRecord(auditId, call.projectId, call.userId,
                                nextAuditVersion(call.project), call.auditReport)
    IN
    /\ call.pc = "checks"
    /\ IF saveAuditCheck(call.project, call.userId) # ""
       THEN /\ result' = Threw("saveAudit", saveAuditCheck(call.project, call.userId))
            /\ calls' = [calls EXCEPT ![c] = [@ EXCEPT !.pc = "thrown"]]
            /\ UNCHANGED <<audits, nextId>>
       ELSE /\ nextId.project + nextId.audit < MaxIds
            /\ nextId' = [nextId EXCEPT !.audit = auditId]
            /\ audits' = Put(audits, auditId, JSONAudit(audit))
            /\ calls' = [calls EXCEPT ![c] = [@ EXCEPT !.pc = "readIndex", !.audit = audit]]
            /\ UNCHANGED result
    /\ UNCHANGED <<authVars, violations, report, projects, userProjects, projectAudits,
                   savedVersions, twin, now>>

\* Line 362: the audit index of the project is read.
SaveReadIndex(c) ==
    /\ calls[c].pc = "readIndex"
    /\ calls' = [calls EXCEPT ![c] =
                    [@ EXCEPT !.pc = "writeIndex",
                              !.auditIds = IF calls[c].projectId \in DOMAIN projectAudits
                                           THEN projectAudits[calls[c].projectId]
                                           ELSE NoValue]]
    /\ UNCHANGED <<authVars, violations, report, repoVars, result, twin, now>>

\* Lines 363-367: the ID is pushed on the list that was read, or the list of
\* the one ID is taken, and the index is written.
SaveWriteIndex(c) ==
    LET call == calls[c] IN
    /\ call.pc = "writeIndex"
    /\ projectAudits' =
          Put(projectAudits, call.projectId,
              IF call.auditIds = NoValue THEN <<call.audit.auditId>>
              ELSE Append(call.auditIds, call.audit.auditId))
    /\ calls' = [calls EXCEPT ![c] = [@ EXCEPT !.pc = "readProject"]]
    /\ UNCHANGED <<authVars, violations, report, projects, userProjects, audits, nextId,
                   savedVersions, result, twin, now>>

\* Line 370 and updateProject line 280: the project record is read again.
SaveReadProject(c) ==
    /\ calls[c].pc = "readProject"
    /\ calls' = [calls EXCEPT ![c] =
                    [@ EXCEPT !.pc = "writeProject", !.project = getProject(calls[c].projectId)]]
    /\ UNCHANGED <<authVars, violations, report, repoVars, result, twin, now>>

\* updateProject lines 281-295 and line 375: the project record is written with
\* the count and the score of this call, and the record is returned.
SaveWriteProject(c) ==
    LET call == calls[c] IN
    /\ call.pc = "writeProject"
    /\ IF call.project = Null
       THEN /\ result' = Threw("saveAudit", "Project not found")
            /\ calls' = [calls EXCEPT ![c] = [@ EXCEPT !.pc = "thrown"]]
            /\ UNCHANGED <<projects, savedVersions>>
       ELSE /\ projects' =
                  Put(projects, call.projectId,
                      JSONProject([Spread(call.project,
                                          [ auditCount |-> call.audit.auditVersion,
                                            latestScore |-> call.audit.accessibilityScore ])
                                     EXCEPT !.updatedAt = now]))
            /\ result' = Returned("saveAudit", call.audit)
            /\ savedVersions' =
                  IF call.projectId \in DOMAIN savedVersions
                  THEN [savedVersions EXCEPT ![call.projectId] =
                           Append(@, call.audit.auditVersion)]
                  ELSE savedVersions
            /\ calls' = [calls EXCEPT ![c] = [@ EXCEPT !.pc = "returned"]]
    /\ UNCHANGED <<authVars, violations, report, userProjects, audits, projectAudits, nextId,
                   twin, now>>

\* The call is interrupted after it has written its record.
Interrupt(c) ==
    /\ calls[c].pc \in {"readIndex", "writeIndex", "readProject", "writeProject"}
    /\ calls' = [calls EXCEPT ![c] = [@ EXCEPT !.pc = "interrupted"]]
    /\ UNCHANGED <<authVars, violations, report, repoVars, result, twin, now>>

(***************************************************************************)
(* Specifications                                                          *)
(***************************************************************************)
StoreInit ==
    /\ projects = EmptyMap
    /\ userProjects = EmptyMap
    /\ audits = EmptyMap
    /\ projectAudits = EmptyMap
    /\ nextId = [project |-> 0, audit |-> 0]
    /\ result = Returned("", NoValue)
    /\ twin = NoValue
    /\ now = 0
    /\ savedVersions = EmptyMap
    /\ users = EmptyMap
    /\ userEmails = EmptyMap
    /\ loginAttempts = EmptyMap
    /\ session = NoSession
    /\ calls = [c \in 1..MaxCalls |-> Idle]

\* The workspace after startAudit: runAudit returned a list, the report is built.
StartAudit(v) ==
    /\ Len(violations) < MaxCritical + MaxAppend
    /\ Appended(violations) < MaxAppend
    /\ violations' = Append(violations, v)
    /\ report' = generateAuditReport(violations')
    /\ UNCHANGED storeVars

ScoreInit ==
    /\ violations \in InitialLists
    /\ report = generateAuditReport(violations)
    /\ StoreInit

ScoreNext == \E v \in Violation : StartAudit(v)

ScoreSpec == ScoreInit /\ [][ScoreNext]_vars

Init ==
    /\ violations = <<>>
    /\ report = generateAuditReport(violations)
    /\ StoreInit

Next ==
    \/ \E u \in Users : CreateProject(u)
    \/ \E p \in ProjectIds, upd \in UpdateInputs : UpdateProject(p, upd)
    \/ \E p \in ProjectIds, u \in Users, r \in CandidateReports : SaveAudit(p, u, r)
    \/ \E a \in AuditIds, n \in NotesInputs : UpdateAuditNotes(a, n)
    \/ \E a \in AuditIds, p \in ProjectIds : DeleteAudit(a, p)
    \/ \E p \in ProjectIds, u \in Users : DeleteProject(p, u)

Spec == Init /\ [][Next]_vars

\* The audit operations of the repository with its reads, as time passes.
AuditNext ==
    \/ \E u \in Users : CreateProject(u)
    \/ \E p \in ProjectIds, u \in Users, r \in CandidateReports : SaveAudit(p, u, r)
    \/ \E a \in AuditIds, n \in NotesInputs : UpdateAuditNotes(a, n)
    \/ \E a \in AuditIds, p \in ProjectIds : DeleteAudit(a, p)
    \/ \E p \in ProjectIds, u \in Users : DeleteProject(p, u)
    \/ \E p \in ProjectIds : GetProjectAudits(p)

AuditSpec == Init /\ [][AuditNext]_vars

\* saveAudit calls that overlap or are interrupted, on the projects created.
OverlapNext ==
    \/ \E u \in Users : CreateProject(u)
    \/ \E c \in 1..MaxCalls, p \in ProjectIds, u \in Users, r \in OverlapReports :
          SaveBegin(c, p, u, r)
    \/ \E c \in 1..MaxCalls : SavePersist(c)
    \/ \E c \in 1..MaxCalls : SaveReadIndex(c)
    \/ \E c \in 1..MaxCalls : SaveWriteIndex(c)
    \/ \E c \in 1..MaxCalls : SaveReadProject(c)
    \/ \E c \in 1..MaxCalls : SaveWriteProject(c)
    \/ \E c \in 1..MaxCalls : Interrupt(c)
    \/ \E p \in ProjectIds : GetProjectAudits(p)

OverlapSpec == Init /\ [][OverlapNext]_vars

(***************************************************************************)
(* loginUser step by step: the rate limit check and the read of the email  *)
(* index run when the call is made, the user record is read after the      *)
(* first await, and the hash is compared after the await of hashPassword.  *)
(***************************************************************************)
\* The catch block of a call under way, which counts with the clock the call
\* read when it started.
LoginCatch(c) ==
    /\ loginAttempts' = failedAttempt(loginAttempts, calls[c].emailLower,
                                      calls[c].now, "Invalid email or password")
    /\ result' = Threw("loginUser", "Invalid email or password")
    /\ calls' = [calls EXCEPT ![c] = Idle]
    /\ UNCHANGED users

\* loginUser is called (lines 104-125): a locked-out email is refused at once,
\* otherwise storageAPI.get reads the email index.
LoginBegin(c, email, password) ==
    LET emailLower == toLowerCase(email)
    IN
    /\ calls[c].pc = "idle"
    /\ IF emailLower \in DOMAIN loginAttempts /\ isLockedOut(loginAttempts[emailLower], now)
       THEN /\ result' = [ op |-> "loginUser", error |-> "Too many login attempts",
                           value |-> Num(minutesLeft(now - loginAttempts[emailLower].lastAttempt)) ]
            /\ UNCHANGED <<calls, loginAttempts>>
       ELSE /\ loginAttempts' = afterLockout(loginAttempts, emailLower)
            /\ calls' = [calls EXCEPT ![c] =
                            [@ EXCEPT !.pc = "lookup", !.emailLower = emailLower,
                                      !.password = password, !.now = now,
                                      !.userId = IF emailLower \in DOMAIN userEmails
                                                 THEN userEmails[emailLower] ELSE 0]]
            /\ UNCHANGED result
    /\ UNCHANGED <<violations, report, repoVars, twin, now, users, userEmails, session>>

\* The email index answered (line 125): without entry the call fails, with one
\* the user record is read (line 127) and hashPassword is started (line 134).
LoginLookup(c) ==
    /\ calls[c].pc = "lookup"
    /\ IF calls[c].userId \notin DOMAIN users
       THEN LoginCatch(c)
       ELSE /\ calls' = [calls EXCEPT ![c] =
                            [@ EXCEPT !.pc = "hash", !.user = users[calls[c].userId]]]
            /\ UNCHANGED <<result, loginAttempts, users>>
    /\ UNCHANGED <<violations, report, repoVars, twin, now, userEmails, session>>

\* The hash is there (lines 136-145): it is compared with the stored one; a
\* match deletes the counter, stamps and stores the user and returns it.
LoginVerify(c) ==
    LET user == [calls[c].user EXCEPT !.lastLoginAt = now]
    IN
    /\ calls[c].pc = "hash"
    /\ IF hashPassword(calls[c].password) # calls[c].user.passwordHash
       THEN LoginCatch(c)
       ELSE /\ loginAttempts' = clearAttempts(loginAttempts, calls[c].emailLower)
            /\ users' = Put(users, user.userId, user)
            /\ result' = Returned("loginUser", user)
            /\ calls' = [calls EXCEPT ![c] = Idle]
    /\ UNCHANGED <<violations, report, repoVars, twin, now, userEmails, session>>

\* Overlapping logins.
LoginOverlapNext ==
    \/ \E e \in EmailInputs, d \in DisplayNames : CreateUser(e, "pw1", d)
    \/ \E c \in 1..MaxCalls, e \in EmailInputs, pw \in Passwords : LoginBegin(c, e, pw)
    \/ \E c \in 1..MaxCalls : LoginLookup(c)
    \/ \E c \in 1..MaxCalls : LoginVerify(c)

LoginOverlapSpec == Init /\ [][LoginOverlapNext]_vars

\* Project deletion next to saves that are under way or were cut short.
CascadeNext ==
    \/ \E u \in Users : CreateProject(u)
    \/ \E c \in 1..MaxCalls, p \in ProjectIds, u \in Users, r \in OverlapReports :
           SaveBegin(c, p, u, r)
    \/ \E c \in 1..MaxCalls : SavePersist(c)
    \/ \E c \in 1..MaxCalls : SaveReadIndex(c)
    \/ \E c \in 1..MaxCalls : SaveWriteIndex(c)
    \/ \E c \in 1..MaxCalls : SaveReadProject(c)
    \/ \E c \in 1..MaxCalls : SaveWriteProject(c)
    \/ \E c \in 1..MaxCalls : Interrupt(c)
    \/ \E p \in ProjectIds, u \in Users : DeleteProject(p, u)

CascadeSpec == Init /\ [][CascadeNext]_vars

\* Accounts and logins, with waits around the lockout duration.
LoginHorizon == (MaxTime + 1) * LOCKOUT_DURATION

LoginNext ==
    \/ \E e \in EmailInputs, pw \in Passwords, d \in DisplayNames : CreateUser(e, pw, d)
    \/ \E e \in EmailInputs, pw \in Passwords : LoginUser(e, pw)
    \/ \E d \in {LOCKOUT_DURATION - 1, LOCKOUT_DURATION} : Elapse(d, LoginHorizon)

LoginSpec == Init /\ [][LoginNext]_vars

\* The session of a signed-up user, with waits around the session timeout.
\* The texts typed into a notes or name field: the five characters that are
\* escaped, the ampersand and a letter.
NoteChars == {"<", ">", "\"", "'", "/", "&", "a"}
NoteStrings == UNION { [1..n -> NoteChars] : n \in 0..MaxNoteLen }

\* The text at hand is sanitized, as updateAuditNotes, createProject and
\* createUser do before they store it; result holds the text (as typed at
\* first, as stored afterwards) and twin the text that was passed.
SanitizeInput ==
    /\ result' = [op |-> "sanitizeInput", error |-> "", value |-> sanitizeInput(result.value)]
    /\ twin' = result.value
    /\ UNCHANGED <<authVars, calls, violations, report, repoVars, now>>

SanitizeInit ==
    /\ violations = <<>>
    /\ report = generateAuditReport(violations)
    /\ projects = EmptyMap
    /\ userProjects = EmptyMap
    /\ audits = EmptyMap
    /\ projectAudits = EmptyMap
    /\ nextId = [project |-> 0, audit |-> 0]
    /\ result \in { Returned("", s) : s \in NoteStrings }
    /\ twin = NoValue
    /\ now = 0
    /\ savedVersions = EmptyMap
    /\ users = EmptyMap
    /\ userEmails = EmptyMap
    /\ loginAttempts = EmptyMap
    /\ session = NoSession
    /\ calls = [c \in 1..MaxCalls |-> Idle]

SanitizeNext == SanitizeInput

SanitizeSpec == SanitizeInit /\ [][SanitizeNext]_vars

\* Logins under several emails, with and without account.
CounterNext ==
    \/ \E e \in EmailInputs, d \in DisplayNames : CreateUser(e, "pw1", d)
    \/ \E e \in LoginEmails, pw \in Passwords : LoginUser(e, pw)
    \/ Elapse(LOCKOUT_DURATION, LoginHorizon)

CounterSpec == Init /\ [][CounterNext]_vars

SessionHorizon == (MaxTime + 1) * (SESSION_TIMEOUT + 1)

SessionNext ==
    \/ \E e \in EmailInputs, pw \in Passwords, d \in DisplayNames : CreateUser(e, pw, d)
    \/ \E u \in DOMAIN users : SetCurrentUser(u)
    \/ GetCurrentUser
    \/ Logout
    \/ \E d \in {SESSION_TIMEOUT, SESSION_TIMEOUT + 1} : Elapse(d, SessionHorizon)

SessionSpec == Init /\ [][SessionNext]_vars

\* A store that an earlier version of the application left: one account and a
\* session in one of the string formats, written at or before time 0.
LegacyUser == [ userId |-> 1, email |-> <<"a">>, passwordHash |-> hashPassword("pw1"),
                displayName |-> <<"D">>, createdAt |-> 0, lastLoginAt |-> 0 ]

LegacyInit ==
    /\ violations = <<>>
    /\ report = generateAuditReport(violations)
    /\ projects = EmptyMap
    /\ userProjects = EmptyMap
    /\ audits = EmptyMap
    /\ projectAudits = EmptyMap
    /\ nextId = [project |-> 0, audit |-> 0]
    /\ result = Returned("", NoValue)
    /\ twin = NoValue
    /\ now = 0
    /\ savedVersions = EmptyMap
    /\ users = Put(EmptyMap, 1, LegacyUser)
    /\ userEmails = Put(EmptyMap, <<"a">>, 1)
    /\ loginAttempts = EmptyMap
    /\ session \in { LegacySession(f, 1) : f \in {"jsonString", "plainString"} }
    /\ calls = [c \in 1..MaxCalls |-> Idle]

LegacyNext ==
    \/ \E e \in EmailInputs, pw \in Passwords, d \in DisplayNames : CreateUser(e, pw, d)
    \/ \E u \in DOMAIN users : SetCurrentUser(u)
    \/ GetCurrentUser
    \/ Logout
    \/ \E d \in {SESSION_TIMEOUT, SESSION_TIMEOUT + 1} : Elapse(d, SessionHorizon)

LegacySpec == LegacyInit /\ [][LegacyNext]_vars

TimedNext ==
    \/ \E u \in Users : CreateProject(u)
    \/ \E p \in ProjectIds, u \in Users, r \in CandidateReports : SaveAudit(p, u, r)
    \/ \E a \in AuditIds, p \in ProjectIds : DeleteAudit(a, p)
    \/ Tick

TimedSpec == Init /\ [][TimedNext]_vars

(***************************************************************************)
(* Properties of the scoring engine (ScoreSpec).                           *)
(***************************************************************************)
\* Number of violations of the list with the given severity.
Tally(vs, s) == Cardinality({ i \in 1..Len(vs) : vs[i].severity = s })

Penalty(vs) == 15 * Tally(vs, "critical") + 8 * Tally(vs, "high")
               + 4 * Tally(vs, "medium") + 2 * Tally(vs, "low")

ClampedScore(vs) == IF Penalty(vs) >= 100 THEN 0 ELSE 100 - Penalty(vs)

\* Number of violations of the list whose criterion the pattern set matches.
Matching(vs, regex) ==
    Cardinality({ i \in 1..Len(vs) : RegExpTest(regex, vs[i].wcag_criterion) })

\* a <= b as the runtime compares: false when either side is NaN.
JSLessEq(a, b) == IsNumber(a) /\ IsNumber(b) /\ a.v <= b.v

\* C3: for every violation list the score is max(0, 100 - (15*#critical +
\* 8*#high + 4*#medium + 2*#low)), any other severity contributing 0, hence an
\* integer in [0,100].
C3_ScoreIsClampedPenalty ==
    /\ report.overall_score = Num(ClampedScore(violations))
    /\ IsNumber(report.overall_score)
    /\ report.overall_score.v \in 0..100

\* C3 restricted to the lists in which no severity names a member inherited from
\* Object.prototype: there the score is the clamped penalty.
ScoreIsClampedPenaltyOwnKeys ==
    (\A i \in 1..Len(violations) : violations[i].severity \notin ObjectPrototypeKeys)
        => C3_ScoreIsClampedPenalty

\* C4: the score never increases when a violation is added: for every list L
\* and every violation v, score(L with v appended) <= score(L).
C4_ScoreMonotone ==
    \A v \in Violation :
        JSLessEq(calculateAccessibilityScore(Append(violations, v)), report.overall_score)

\* C5: for the empty list the score is 100 and both levels pass with zero
\* violations.
C5_EmptyList ==
    violations = <<>> =>
        /\ report.overall_score = Num(100)
        /\ report.wcag_compliance.level_a = [pass |-> TRUE, violations |-> 0]
        /\ report.wcag_compliance.level_aa = [pass |-> TRUE, violations |-> 0]

C5_Witness ==
    /\ violations = <<>>
    /\ report.summary.total_violations = 0
    /\ report.overall_score = Num(100)

\* C6: level_a.pass iff no violation matches the Level-A set; level_aa.pass iff
\* level_a.pass and no violation matches the Level-AA set; the two violation
\* counts are the numbers of violations matching the respective set.
C6_ComplianceLevels ==
    LET c == report.wcag_compliance
    IN  /\ c.level_a.pass <=> (Matching(violations, LevelARegex) = 0)
        /\ c.level_aa.pass <=> (c.level_a.pass /\ Matching(violations, LevelAARegex) = 0)
        /\ c.level_a.violations = Matching(violations, LevelARegex)
        /\ c.level_aa.violations = Matching(violations, LevelAARegex)

\* A list with Level-A matches and no Level-AA match: AA fails with zero AA violations.
C6_Witness ==
    /\ Matching(violations, LevelARegex) = 2
    /\ Matching(violations, LevelAARegex) = 0
    /\ ~report.wcag_compliance.level_aa.pass
    /\ report.wcag_compliance.level_aa.violations = 0

\* C10: the summary has total_violations = length of the list and one tally per
\* known severity; the tallies sum to at most the total, with equality iff every
\* severity is known; and overall_score = max(0, 100 - 15*critical - 8*high -
\* 4*medium - 2*low) of the summary.
C10_SummaryAndScore ==
    LET sm == report.summary
        known == sm.critical + sm.high + sm.medium + sm.low
        penalty == 15 * sm.critical + 8 * sm.high + 4 * sm.medium + 2 * sm.low
    IN  /\ sm.total_violations = Len(violations)
        /\ \A s \in Severity : sm[s] = Tally(violations, s)
        /\ known <= sm.total_violations
        /\ (known = sm.total_violations) <=>
              (\A i \in 1..Len(violations) : violations[i].severity \in Severity)
        /\ report.overall_score = Num(IF penalty >= 100 THEN 0 ELSE 100 - penalty)

(***************************************************************************)
(* Properties of the repository (Spec).                                    *)
(***************************************************************************)
\* The aggregates of a persisted record.
Aggregates(r) ==
    << r.accessibilityScore, r.wcagCompliance, r.totalViolations, r.violationsBySeverity,
       r.fullReport.overall_score, r.fullReport.summary, r.fullReport.wcag_compliance >>

SavedNow == twin # NoValue

\* C1: saveAudit ignores the caller's aggregates: from the same store, two
\* candidate reports with the same violations and different overall_score,
\* summary and wcag_compliance are persisted with identical aggregates.
C1_AggregatesIgnored ==
    SavedNow =>
        /\ result.value.auditId \in DOMAIN audits
        /\ twin.persisted.fullReport.violations =
              audits[result.value.auditId].fullReport.violations
        /\ Aggregates(audits[result.value.auditId]) = Aggregates(twin.persisted)

\* A forged score of 100 handed in with a critical violation is stored as 85.
C1_Witness ==
    /\ SavedNow
    /\ twin.auditReport = ForgedReport(twin.auditReport.violations)
    /\ twin.auditReport.overall_score = Num(100)
    /\ audits[result.value.auditId].violationsBySeverity.critical = 1
    /\ audits[result.value.auditId].accessibilityScore = Num(85)
    /\ audits[result.value.auditId].fullReport.overall_score = Num(85)

\* C2: every persisted record's aggregates are those of its own violation list:
\* accessibilityScore = score(violations) = fullReport.overall_score,
\* totalViolations = length, violationsBySeverity = the tallies, and levelA,
\* levelAA = the pass flags of the compliance levels.
C2_RecordDerived ==
    \A a \in DOMAIN audits :
        LET r == audits[a]
            vs == r.fullReport.violations
        IN  /\ r.accessibilityScore = calculateAccessibilityScore(vs)
            /\ r.fullReport.overall_score = r.accessibilityScore
            /\ r.totalViolations = Len(vs)
            /\ \A s \in Severity : r.violationsBySeverity[s] = Tally(vs, s)
            /\ r.wcagCompliance.levelA = determineWCAGCompliance(vs).level_a.pass
            /\ r.wcagCompliance.levelAA = determineWCAGCompliance(vs).level_aa.pass

\* C2 for the records whose list names no inherited member as a severity.
RecordDerivedOwnKeys ==
    \A a \in DOMAIN audits :
        LET r == audits[a]
            vs == r.fullReport.violations
        IN  (\A i \in 1..Len(vs) : vs[i].severity \notin ObjectPrototypeKeys) =>
            /\ r.accessibilityScore = calculateAccessibilityScore(vs)
            /\ r.fullReport.overall_score = r.accessibilityScore
            /\ r.totalViolations = Len(vs)
            /\ \A s \in Severity : r.violationsBySeverity[s] = Tally(vs, s)
            /\ r.wcagCompliance.levelA = determineWCAGCompliance(vs).level_a.pass
            /\ r.wcagCompliance.levelAA = determineWCAGCompliance(vs).level_aa.pass

HasCriterion(vs, criterion) == \E i \in 1..Len(vs) : vs[i].wcag_criterion = criterion

\* C7: AA compliance implies A compliance in the report and in the record of
\* every persisted audit, and a list with a violation of criterion 1.1.1 fails
\* both levels, also when nothing matches the Level-AA set.
C7_AAImpliesA ==
    \A a \in DOMAIN audits :
        LET r == audits[a]
            c == r.fullReport.wcag_compliance
        IN  /\ c.level_aa.pass => c.level_a.pass
            /\ r.wcagCompliance.levelAA => r.wcagCompliance.levelA
            /\ HasCriterion(r.fullReport.violations, Crit("1", "1", <<"1">>)) =>
                  /\ ~c.level_a.pass /\ ~c.level_aa.pass
                  /\ ~r.wcagCompliance.levelA /\ ~r.wcagCompliance.levelAA

\* A persisted audit with a 1.1.1 violation and no Level-AA match: AA is failed.
C7_Witness ==
    \E a \in DOMAIN audits :
        /\ HasCriterion(audits[a].fullReport.violations, Crit("1", "1", <<"1">>))
        /\ audits[a].fullReport.wcag_compliance.level_aa.violations = 0
        /\ ~audits[a].wcagCompliance.levelAA
        /\ ~audits[a].fullReport.wcag_compliance.level_aa.pass

\* C8: Level AAA is never claimed: every persisted record has levelAAA = FALSE
\* and its report has level_aaa.not_tested = TRUE, whatever the violations.
C8_AAANeverClaimed ==
    \A a \in DOMAIN audits :
        /\ audits[a].wcagCompliance.levelAAA = FALSE
        /\ audits[a].fullReport.wcag_compliance.level_aaa.not_tested = TRUE

\* Two persisted audits, one with a violation the Level-AAA set matches and one
\* with none, both not claiming AAA.
C8_Witness ==
    /\ \E a \in DOMAIN audits :
          /\ Matching(audits[a].fullReport.violations, LevelAAARegex) = 0
          /\ ~audits[a].wcagCompliance.levelAAA
    /\ \E a \in DOMAIN audits :
          /\ Matching(audits[a].fullReport.violations, LevelAAARegex) > 0
          /\ ~audits[a].wcagCompliance.levelAAA

(***************************************************************************)
(* Properties of the audit history of a project.                           *)
(***************************************************************************)
\* The existing audit records of a project: the stored records that name it.
RecordsOf(p) == { a \in DOMAIN audits : audits[a].projectId = p }

VersionsOf(p) == { audits[a].auditVersion : a \in RecordsOf(p) }

\* C11: for every project, the auditVersions its successful saveAudit calls
\* returned are, in completion order, exactly 1, 2, 3, ... after any sequence of
\* saveAudit, deleteAudit and updateAuditNotes calls: no gap, no repeat, and no
\* version is handed out again after its audit was deleted.
C11_VersionsCountUp ==
    \A p \in DOMAIN savedVersions :
        savedVersions[p] = [i \in 1..Len(savedVersions[p]) |-> i]

\* A project whose two saves returned 1 and 2 and whose first audit is deleted.
C11_Witness ==
    \E p \in DOMAIN savedVersions :
        /\ savedVersions[p] = <<1, 2>>
        /\ VersionsOf(p) = {2}

\* C12: the existing audit records of a project carry pairwise distinct
\* auditVersions that form the dense range 1..n, n the number of records, after
\* any sequence of saveAudit, deleteAudit and deleteProject calls.
C12_DenseVersions ==
    \A p \in 1..nextId.project :
        /\ \A a, b \in RecordsOf(p) :
              audits[a].auditVersion = audits[b].auditVersion => a = b
        /\ VersionsOf(p) = 1..Cardinality(RecordsOf(p))

\* C12 as the code keeps it: the existing audit records of a project carry
\* pairwise distinct auditVersions, each one in 1..auditCount of the project;
\* they form the dense range 1..n as long as deleteAudit removed none of them
\* (as many records as versions were returned).
C12_DistinctVersions ==
    \A p \in 1..nextId.project :
        /\ \A a, b \in RecordsOf(p) :
              audits[a].auditVersion = audits[b].auditVersion => a = b
        /\ p \in DOMAIN projects => VersionsOf(p) \subseteq 1..projects[p].auditCount
        /\ p \notin DOMAIN projects => RecordsOf(p) = {}
        /\ (p \in DOMAIN savedVersions
              /\ Cardinality(RecordsOf(p)) = Len(savedVersions[p])) =>
                 VersionsOf(p) = 1..Cardinality(RecordsOf(p))

\* A project with a gap: version 1 of two was deleted, version 2 is kept.
C12_Witness ==
    \E p \in DOMAIN projects :
        /\ projects[p].auditCount = 2
        /\ VersionsOf(p) = {2}

\* C13: while a project has an existing audit record, its latestScore is the
\* accessibilityScore of its existing audit with the highest auditVersion, after
\* any sequence of saveAudit, deleteAudit, updateAuditNotes and updateProject.
C13_LatestScoreOfHighest ==
    \A p \in DOMAIN projects :
        \A a \in RecordsOf(p) :
            (\A b \in RecordsOf(p) : audits[b].auditVersion <= audits[a].auditVersion) =>
                projects[p].latestScore = audits[a].accessibilityScore

(***************************************************************************)
(* Properties of single calls: what a call returns and which keys it       *)
(* writes, stated on the step the call takes.                              *)
(***************************************************************************)
store == <<projects, userProjects, audits, projectAudits>>

Range(s) == { s[i] : i \in 1..Len(s) }

\* C14: saveAudit on a projectId with no stored project fails with "Project not
\* found" and leaves the whole store unchanged: no audit record, no index.
C14_SaveToMissingProject ==
    [][\A p \in ProjectIds, u \in Users, r \in CandidateReports :
          (p \notin DOMAIN projects /\ SaveAudit(p, u, r)) =>
              /\ result' = Threw("saveAudit", "Project not found")
              /\ UNCHANGED store]_vars

\* A failed save on a missing project, in a store that holds an audit.
C14_Witness ==
    /\ result = Threw("saveAudit", "Project not found")
    /\ audits # EmptyMap

\* C15: saveAudit by a userId other than the project's owner fails with
\* "Unauthorized" and leaves the store unchanged: auditCount, latestScore,
\* updatedAt and the audit index are untouched and no record is created.
C15_SaveByOtherUser ==
    [][\A p \in ProjectIds, u \in Users, r \in CandidateReports :
          (p \in DOMAIN projects /\ projects[p].userId # u /\ SaveAudit(p, u, r)) =>
              /\ result' = Threw("saveAudit", "Unauthorized")
              /\ UNCHANGED store]_vars

\* A save refused as unauthorized while the project has an audit of its owner.
C15_Witness ==
    /\ result = Threw("saveAudit", "Unauthorized")
    /\ \E p \in DOMAIN projects : projects[p].auditCount = 1 /\ RecordsOf(p) # {}

\* C16: a successful saveAudit on a project with auditCount = n writes exactly
\* three keys: the new audit record under a fresh ID, with auditVersion n + 1 and
\* empty notes; the project's audit index with the new ID appended (created if
\* absent, the listed IDs kept in order); and the project record with auditCount
\* n + 1, latestScore the new record's accessibilityScore and updatedAt set to
\* the current time, its other fields unchanged.
C16_SaveWritesThreeKeys ==
    [][\A p \in ProjectIds, u \in Users, r \in CandidateReports :
          (p \in DOMAIN projects /\ projects[p].userId = u /\ SaveAudit(p, u, r)) =>
              LET n == projects[p].auditCount
                  id == result'.value.auditId
              IN  /\ result'.error = ""
                  /\ id \notin 1..nextId.audit
                  /\ DOMAIN audits' = DOMAIN audits \cup {id}
                  /\ \A a \in DOMAIN audits : audits'[a] = audits[a]
                  /\ audits'[id].projectId = p
                  /\ audits'[id].auditVersion = n + 1
                  /\ audits'[id].notes = <<>>
                  /\ DOMAIN projectAudits' = DOMAIN projectAudits \cup {p}
                  /\ \A q \in DOMAIN projectAudits \ {p} : projectAudits'[q] = projectAudits[q]
                  /\ projectAudits'[p] =
                        IF p \in DOMAIN projectAudits
                        THEN projectAudits[p] \o <<id>>
                        ELSE <<id>>
                  /\ projects' =
                        [projects EXCEPT ![p] =
                            [@ EXCEPT !.auditCount = n + 1,
                                      !.latestScore = audits'[id].accessibilityScore,
                                      !.updatedAt = now]]
                  /\ projects'[p].updatedAt >= projects[p].updatedAt
                  /\ userProjects' = userProjects]_vars

\* After a second save at a later time: the index lists both IDs in order, the
\* count is 2 and updatedAt is past createdAt.
C16_Witness ==
    /\ SavedNow
    /\ \E p \in DOMAIN projects :
          /\ projects[p].auditCount = 2
          /\ Len(projectAudits[p]) = 2
          /\ projectAudits[p][2] = result.value.auditId
          /\ projects[p].updatedAt > projects[p].createdAt

\* C17: on a project with auditCount = 0, saveAudit by the owner with the single
\* violation { critical, "1.4.3" } returns a record with auditVersion 1, score
\* 85, levelA true and levelAA false, and leaves the project with auditCount 1
\* and latestScore 85.
C17_FirstSave ==
    [][\A p \in ProjectIds, u \in Users, r \in CandidateReports :
          (/\ p \in DOMAIN projects /\ projects[p].userId = u
           /\ projects[p].auditCount = 0
           /\ r.violations = <<V("critical", Crit("1", "4", <<"3">>))>>
           /\ SaveAudit(p, u, r)) =>
              /\ result'.error = ""
              /\ result'.value.auditVersion = 1
              /\ result'.value.accessibilityScore = Num(85)
              /\ result'.value.wcagCompliance.levelA = TRUE
              /\ result'.value.wcagCompliance.levelAA = FALSE
              /\ projects'[p].auditCount = 1
              /\ projects'[p].latestScore = Num(85)]_vars

\* The first save of the single critical 1.4.3 violation has just returned.
C17_Witness ==
    /\ SavedNow
    /\ twin.auditReport.violations = <<V("critical", Crit("1", "4", <<"3">>))>>
    /\ result.value.auditVersion = 1
    /\ result.value.accessibilityScore = Num(85)
    /\ projects[result.value.projectId].auditCount = 1
    /\ projects[result.value.projectId].latestScore = Num(85)

\* The IDs a project's index lists whose record exists.
ListedExisting(p) ==
    IF p \in DOMAIN projectAudits THEN Range(projectAudits[p]) \cap DOMAIN audits ELSE {}

\* C18: getProjectAudits(p) never throws and returns exactly the existing audit
\* records whose IDs the index of p lists, sorted by auditVersion descending:
\* listed IDs without a record are skipped, a missing index gives the empty
\* list, and no key is modified.
C18_ReadIndex ==
    [][\A p \in ProjectIds :
          GetProjectAudits(p) =>
              LET out == result'.value IN
              /\ result'.error = ""
              /\ Len(out) = Cardinality(ListedExisting(p))
              /\ { out[i].auditId : i \in 1..Len(out) } = ListedExisting(p)
              /\ \A i \in 1..Len(out) : out[i] = audits[out[i].auditId]
              /\ \A i, j \in 1..Len(out) :
                    i < j => out[i].auditVersion >= out[j].auditVersion
              /\ UNCHANGED store]_vars

\* A read that returned versions 2 and 1, in that order, of an index that lists
\* them oldest first.
C18_Witness ==
    /\ result.op = "getProjectAudits"
    /\ Len(result.value) = 2
    /\ result.value[1].auditVersion = 2
    /\ result.value[2].auditVersion = 1
    /\ \E p \in DOMAIN projectAudits :
          projectAudits[p] = <<result.value[2].auditId, result.value[1].auditId>>

\* A project that was created and is deleted has no trace left.
NoTraceOfDeleted ==
    \A p \in 1..nextId.project :
        p \notin DOMAIN projects =>
            /\ RecordsOf(p) = {}
            /\ p \notin DOMAIN projectAudits
            /\ getProjectAudits(p) = <<>>

\* C19: after deleteProject(p, owner), whatever saveAudit and deleteAudit calls
\* came before: no audit record saved for p remains, the keys of the index and
\* of the project are absent, p is not listed in the owner's project index, and
\* every later getProjectAudits(p) returns the empty list.
C19_DeleteProjectCascades ==
    /\ []NoTraceOfDeleted
    /\ [][\A p \in ProjectIds, u \in Users :
            (p \in DOMAIN projects /\ projects[p].userId = u /\ DeleteProject(p, u)) =>
                /\ result'.error = ""
                /\ p \notin DOMAIN projects'
                /\ p \notin DOMAIN projectAudits'
                /\ \A a \in DOMAIN audits' : audits'[a].projectId # p
                /\ u \in DOMAIN userProjects' => p \notin Range(userProjects'[u])]_vars
    /\ [][\A p \in ProjectIds :
            (p \in 1..nextId.project /\ p \notin DOMAIN projects /\ GetProjectAudits(p)) =>
                result'.value = <<>>]_vars

\* The one project was deleted after two audits were saved for it; nothing of
\* it is stored and a read of it has returned the empty list.
C19_Witness ==
    /\ nextId.project = 1 /\ nextId.audit = 2
    /\ projects = EmptyMap /\ audits = EmptyMap /\ projectAudits = EmptyMap
    /\ \A u \in DOMAIN userProjects : userProjects[u] = <<>>
    /\ result.op = "getProjectAudits" /\ result.value = <<>>

\* C20: deleteProject(p, u) by a user u other than the project's owner removes
\* neither the project record nor its audit index nor any of its audit records.
C20_DeleteByOtherUser ==
    [][\A p \in ProjectIds, u \in Users :
          (p \in DOMAIN projects /\ projects[p].userId # u /\ DeleteProject(p, u)) =>
              /\ projects' = projects
              /\ projectAudits' = projectAudits
              /\ audits' = audits]_vars

\* C21: deleteAudit(a, p) removes the record of a and removes a from the audit
\* index of p, keeping the other IDs and their order (an index that is missing
\* stays missing, without error), and leaves the project record of p as it was:
\* auditCount and latestScore keep their values.
C21_DeleteAuditFrame ==
    [][\A a \in AuditIds, p \in ProjectIds :
          DeleteAudit(a, p) =>
              /\ result'.error = ""
              /\ DOMAIN audits' = DOMAIN audits \ {a}
              /\ \A b \in DOMAIN audits' : audits'[b] = audits[b]
              /\ DOMAIN projectAudits' = DOMAIN projectAudits
              /\ \A q \in DOMAIN projectAudits \ {p} : projectAudits'[q] = projectAudits[q]
              /\ p \in DOMAIN projectAudits =>
                    projectAudits'[p] = SelectSeq(projectAudits[p], LAMBDA id : id # a)
              /\ projects' = projects
              /\ userProjects' = userProjects]_vars

\* The first of two audits was deleted: the index keeps the second, and the
\* project still counts two audits.
C21_Witness ==
    /\ ~SavedNow
    /\ \E p \in DOMAIN projects :
          /\ projects[p].auditCount = 2
          /\ p \in DOMAIN projectAudits
          /\ Len(projectAudits[p]) = 1
          /\ projectAudits[p][1] \in DOMAIN audits
          /\ audits[projectAudits[p][1]].auditVersion = 2

\* An audit record with its notes blanked: the fields that never change.
Immutable(audit) == [audit EXCEPT !.notes = <<>>]

\* C22: an audit record is immutable except for notes: from its creation until
\* it is deleted every field but notes keeps its creation value under every
\* operation (an ID is created once); updateAuditNotes(a, s) changes only the
\* notes of a, to the sanitized form of s, and writes no other key.
C22_OnlyNotesChange ==
    [][/\ \A a \in DOMAIN audits' :
             IF a \in DOMAIN audits
             THEN Immutable(audits'[a]) = Immutable(audits[a])
             ELSE a > nextId.audit
       /\ \A a \in DOMAIN audits, s \in NotesInputs :
             UpdateAuditNotes(a, s) =>
                 /\ audits'[a].notes = sanitizeInput(s)
                 /\ \A i \in 1..Len(audits'[a].notes) :
                       audits'[a].notes[i] \notin {"<", ">", "\"", "'", "/"}
                 /\ DOMAIN audits' = DOMAIN audits
                 /\ \A b \in DOMAIN audits \ {a} : audits'[b] = audits[b]
                 /\ projects' = projects
                 /\ projectAudits' = projectAudits
                 /\ userProjects' = userProjects]_vars

\* An audit whose notes were edited and whose other fields are those of a first
\* save.
C22_Witness ==
    \E a \in DOMAIN audits :
        /\ audits[a].notes # <<>>
        /\ audits[a].auditVersion = 1
        /\ result = Returned("updateAuditNotes", NoValue)

(***************************************************************************)
(* Properties of accounts, logins and the session.                         *)
(***************************************************************************)
\* C23: createUser with an email whose lowercased form has a user_email entry
\* fails with 'An account with this email already exists' and leaves the store
\* unchanged: no user record is written, the entry maps to the original userId.
C23_DuplicateEmailRefused ==
    [][\A e \in EmailInputs, pw \in Passwords, d \in DisplayNames :
          (toLowerCase(e) \in DOMAIN userEmails /\ CreateUser(e, pw, d)) =>
              /\ result' = Threw("createUser", "An account with this email already exists")
              /\ users' = users
              /\ userEmails' = userEmails]_vars

\* C24: email uniqueness: after any sequence of createUser calls at most one
\* user record has a given lowercased email, and every stored user record is
\* the one the user_email entry of its email points to.
C24_EmailUnique ==
    /\ \A u, w \in DOMAIN users : users[u].email = users[w].email => u = w
    /\ \A u \in DOMAIN users :
          /\ users[u].email \in DOMAIN userEmails
          /\ userEmails[users[u].email] = u

\* The password of the account an email leads to is the one given.
CorrectPassword(e, pw) == loginThrown(users, userEmails, toLowerCase(e), pw) = ""

\* C25: after five consecutive failed logins for an email, a login less than 15
\* minutes after the last of them fails with the rate limit error even with the
\* correct password; once 15 minutes have passed since the last counted
\* failure, a login with the correct password succeeds and the counter of the
\* email is cleared.  Every failed login counts one attempt at its time.
C25_Lockout ==
    [][\A e \in EmailInputs, pw \in Passwords :
          LoginUser(e, pw) =>
              LET key == toLowerCase(e)
                  counted == IF key \in DOMAIN loginAttempts
                             THEN loginAttempts[key].count ELSE 0
                  since == now - loginAttempts[key].lastAttempt
              IN  /\ (counted = MAX_LOGIN_ATTEMPTS /\ since < LOCKOUT_DURATION) =>
                        /\ result'.error = "Too many login attempts"
                        /\ loginAttempts' = loginAttempts
                        /\ users' = users
                  /\ (counted = MAX_LOGIN_ATTEMPTS /\ since >= LOCKOUT_DURATION
                         /\ CorrectPassword(e, pw)) =>
                        /\ result'.error = ""
                        /\ key \notin DOMAIN loginAttempts'
                  /\ (counted < MAX_LOGIN_ATTEMPTS /\ ~CorrectPassword(e, pw)) =>
                        /\ result'.error = "Invalid email or password"
                        /\ loginAttempts'[key] = [count |-> counted + 1, lastAttempt |-> now]
                  /\ counted <= MAX_LOGIN_ATTEMPTS]_vars

\* A login was refused by the rate limit one millisecond before the lockout of
\* the full counter of an email with an account runs out.
C25_Witness ==
    /\ result.error = "Too many login attempts"
    /\ \E e \in EmailInputs, pw \in Passwords :
          /\ CorrectPassword(e, pw)
          /\ loginAttempts[toLowerCase(e)].count = MAX_LOGIN_ATTEMPTS
          /\ now - loginAttempts[toLowerCase(e)].lastAttempt = LOCKOUT_DURATION - 1

\* A login with bad credentials has just been answered.
BadLoginNow == twin # NoValue /\ "email" \in DOMAIN twin

\* C26: an unknown email and a wrong password are indistinguishable: from the
\* same attempt counters, loginUser raises the same error in the store where
\* the email has an account (and the password is wrong) and in the store where
\* it has none, changes the counters in the same way, and every later rate
\* limit outcome for the email is the same.
C26_SameFailure ==
    BadLoginNow =>
        /\ twin.result = result
        /\ twin.loginAttempts = loginAttempts
        /\ \A d \in {0, 1, LOCKOUT_DURATION - 1, LOCKOUT_DURATION} :
              (twin.email \in DOMAIN loginAttempts
                 /\ isLockedOut(loginAttempts[twin.email], now + d))
              <=> (twin.email \in DOMAIN twin.loginAttempts
                     /\ isLockedOut(twin.loginAttempts[twin.email], now + d))

\* A wrong password on an email with an account was answered 'Invalid email or
\* password' and counted, beside the same call on the store without the account.
C26_Witness ==
    /\ BadLoginNow
    /\ twin.email \in DOMAIN userEmails
    /\ result.error = "Invalid email or password"
    /\ twin.email \in DOMAIN loginAttempts
    /\ loginAttempts[twin.email].lastAttempt = now

\* C27: a successful loginUser clears the attempt counter of the email, returns
\* the stored user, and changes only lastLoginAt in the stored user record:
\* userId, email, passwordHash, displayName and createdAt are unchanged and no
\* other key is written.
C27_LoginSuccessFrame ==
    [][\A e \in EmailInputs, pw \in Passwords :
          (/\ CorrectPassword(e, pw)
           /\ ~(toLowerCase(e) \in DOMAIN loginAttempts
                  /\ loginAttempts[toLowerCase(e)].count >= MAX_LOGIN_ATTEMPTS
                  /\ now - loginAttempts[toLowerCase(e)].lastAttempt < LOCKOUT_DURATION)
           /\ LoginUser(e, pw)) =>
              LET u == userEmails[toLowerCase(e)] IN
              /\ result'.error = ""
              /\ toLowerCase(e) \notin DOMAIN loginAttempts'
              /\ \A k \in DOMAIN loginAttempts \ {toLowerCase(e)} :
                    k \in DOMAIN loginAttempts' /\ loginAttempts'[k] = loginAttempts[k]
              /\ result'.value = users'[u]
              /\ users' = [users EXCEPT ![u] = [@ EXCEPT !.lastLoginAt = now]]
              /\ userEmails' = userEmails
              /\ session' = session
              /\ UNCHANGED repoVars]_vars

\* A login succeeded later than the signup: the email has no counter, and the
\* stored record, which is the one returned, shows the login time.
C27_Witness ==
    /\ result.error = "" /\ twin = NoValue
    /\ "lastLoginAt" \in DOMAIN result.value
    /\ result.value.lastLoginAt > result.value.createdAt
    /\ result.value.email \notin DOMAIN loginAttempts
    /\ users[result.value.userId] = result.value

\* C28: for a stored session {userId, lastActivity}, getCurrentUser at time now
\* returns no user and deletes current_session if now - lastActivity is more
\* than 24 hours; otherwise it rewrites the session with lastActivity = now and
\* the same userId and returns the stored user.  So a session read within 24
\* hours of its last read stays, and one unread for longer yields no user: once
\* it is deleted, reads return no user.
C28_SessionTimeout ==
    [][GetCurrentUser =>
          /\ result'.error = ""
          /\ (session # NoSession /\ now - session.lastActivity > 24 * 60 * 60 * 1000) =>
                /\ session' = NoSession
                /\ result'.value = Null
          /\ (session # NoSession /\ now - session.lastActivity <= 24 * 60 * 60 * 1000) =>
                /\ session' = [userId |-> session.userId, lastActivity |-> now]
                /\ result'.value = users[session.userId]
          /\ session = NoSession =>
                /\ session' = NoSession
                /\ result'.value = Null
          /\ UNCHANGED <<users, userEmails, loginAttempts, repoVars>>]_vars

\* A session read exactly 24 hours after its last activity was refreshed and
\* returned its user.
C28_Witness ==
    /\ result.op = "getCurrentUser"
    /\ result.value # Null
    /\ session # NoSession
    /\ session.lastActivity = now
    /\ now = SESSION_TIMEOUT

(***************************************************************************)
(* Properties of saveAudit calls that overlap.                             *)
(***************************************************************************)
\* C29: no two audit records of the same project carry the same auditVersion,
\* also when two saveAudit calls on the project overlap, or when a saveAudit is
\* interrupted after it wrote its record and before it updated auditCount, and
\* another saveAudit follows.
C29_NoVersionTwice ==
    \A a, b \in DOMAIN audits :
        (audits[a].projectId = audits[b].projectId
           /\ audits[a].auditVersion = audits[b].auditVersion) => a = b

\* C30: every audit whose saveAudit call returned and that is not deleted is
\* listed by getProjectAudits of its project, also when saveAudit calls on the
\* project overlap: no ID appended to the index by another save is lost.
C30_ReturnedIsListed ==
    \A c \in 1..MaxCalls :
        (calls[c].pc = "returned" /\ calls[c].audit.auditId \in DOMAIN audits) =>
            \E i \in 1..Len(getProjectAudits(calls[c].projectId)) :
                getProjectAudits(calls[c].projectId)[i].auditId = calls[c].audit.auditId

\* The projects whose deleteProject has completed.
DeletedProjects == (1..nextId.project) \ DOMAIN savedVersions

\* C31: after deleteProject(p) has completed no audit record with projectId = p
\* is stored, then or later, also when the audit index and the stored records
\* had diverged before (a saveAudit interrupted between writing its record and
\* appending it to the index) or when a saveAudit on p interleaves with the
\* deletion.
C31_NoRecordAfterDelete ==
    \A p \in DeletedProjects : RecordsOf(p) = {}

\* C32: the Level-AAA pattern set is informational only: adding a violation
\* whose criterion the Level-AAA pattern set matches changes neither pass nor
\* violations of level_a and level_aa, because no criterion matched by the
\* AAA set is matched by the A or the AA set.
C32_AAAInformational ==
    [][\A v \in Violation :
          (RegExpTest(LevelAAARegex, v.wcag_criterion) /\ StartAudit(v)) =>
              /\ ~RegExpTest(LevelARegex, v.wcag_criterion)
              /\ ~RegExpTest(LevelAARegex, v.wcag_criterion)
              /\ report'.wcag_compliance.level_a = report.wcag_compliance.level_a
              /\ report'.wcag_compliance.level_aa = report.wcag_compliance.level_aa]_vars

\* C33: failures separated from the previous failure by more than the lockout
\* window do not accumulate with the older ones: a failed attempt made more than
\* 15 minutes after the last counted failure starts the count again at one, so
\* that only five failures within one window lead to a rate limit.
C33_WindowedCount ==
    [][\A e \in EmailInputs, pw \in Passwords :
          ( /\ toLowerCase(e) \in DOMAIN loginAttempts
            /\ now - loginAttempts[toLowerCase(e)].lastAttempt > LOCKOUT_DURATION
            /\ ~CorrectPassword(e, pw)
            /\ LoginUser(e, pw) ) =>
              loginAttempts'[toLowerCase(e)].count = 1]_vars

\* The counter of the email is full and its lockout has not run out.
LockedOut(e) ==
    /\ toLowerCase(e) \in DOMAIN loginAttempts
    /\ loginAttempts[toLowerCase(e)].count >= MAX_LOGIN_ATTEMPTS
    /\ now - loginAttempts[toLowerCase(e)].lastAttempt < LOCKOUT_DURATION

\* The least number of whole minutes that covers ms milliseconds.
CeilMinutes(ms) == CHOOSE m \in 0..(ms \div 60000 + 1) :
                       m * 60000 >= ms /\ (m - 1) * 60000 < ms

\* C34: a loginUser call the rate limiter rejects changes nothing: the attempt
\* counters (count and lastAttempt) and every key of the store are as before,
\* so attempts during a lockout do not extend it; the wait it reports is the
\* remaining milliseconds rounded up to minutes, between 1 and 15.
C34_RejectedChangesNothing ==
    [][\A e \in EmailInputs, pw \in Passwords :
          (LockedOut(e) /\ LoginUser(e, pw)) =>
              LET remaining == LOCKOUT_DURATION
                                  - (now - loginAttempts[toLowerCase(e)].lastAttempt)
              IN  /\ loginAttempts' = loginAttempts
                  /\ users' = users /\ userEmails' = userEmails /\ session' = session
                  /\ store' = store
                  /\ result'.error = "Too many login attempts"
                  /\ result'.value = Num(CeilMinutes(remaining))
                  /\ result'.value.v \in 1..15]_vars

\* A call rejected one millisecond before the lockout runs out: the counter is
\* still the one of the fifth failure and the wait reported is one minute.
C34_Witness ==
    /\ result.op = "loginUser"
    /\ result.error = "Too many login attempts"
    /\ result.value = Num(1)
    /\ \E k \in DOMAIN loginAttempts :
          /\ loginAttempts[k].count = MAX_LOGIN_ATTEMPTS
          /\ now - loginAttempts[k].lastAttempt = LOCKOUT_DURATION - 1

\* k is e with its capital letters replaced by small ones.
LowerCaseOf(k, e) ==
    /\ Len(k) = Len(e)
    /\ \A i \in 1..Len(e) :
          \/ k[i] = e[i] /\ e[i] \notin {"A", "B"}
          \/ <<k[i], e[i]>> \in { <<"a", "A">>, <<"b", "B">> }

\* C36: a loginUser call that fails, with invalid credentials or at the rate
\* limit, writes no key of the store (user records, email index, session,
\* projects, audits) and changes the attempt counter of the lowercased email
\* only: every other counter is as before, and emails that differ in letter
\* case only count into one counter.
C36_FailedLoginFrame ==
    [][\A e \in LoginEmails, pw \in Passwords :
          (LoginUser(e, pw) /\ result'.error # "") =>
              /\ users' = users /\ userEmails' = userEmails /\ session' = session
              /\ store' = store
              /\ \A k \in DOMAIN loginAttempts \cup DOMAIN loginAttempts' :
                    \/ LowerCaseOf(k, e)
                    \/ /\ k \in DOMAIN loginAttempts /\ k \in DOMAIN loginAttempts'
                       /\ loginAttempts'[k] = loginAttempts[k]
              /\ result'.error = "Invalid email or password" =>
                    \E k \in DOMAIN loginAttempts' :
                        /\ LowerCaseOf(k, e)
                        /\ loginAttempts'[k].count =
                              IF k \in DOMAIN loginAttempts
                                 /\ loginAttempts[k].count < MAX_LOGIN_ATTEMPTS
                              THEN loginAttempts[k].count + 1 ELSE 1]_vars

\* A failed login typed in capitals after failures under two emails: the email
\* with an account has one counter of three failures, under its lowercased
\* form, and the counter of the other email is still there.
C36_Witness ==
    /\ result.op = "loginUser" /\ result.error = "Invalid email or password"
    /\ twin # NoValue /\ twin.email = <<"a">>
    /\ <<"a">> \in DOMAIN userEmails
    /\ DOMAIN loginAttempts = { <<"a">>, <<"b">> }
    /\ loginAttempts[<<"a">>].count = 3
    /\ loginAttempts[<<"b">>].count = 2

\* C35: while an email is locked out no loginUser call for it compares a
\* password hash or returns a user, also when calls for the email overlap.
C35_NoVerifyWhileLocked ==
    [][\A c \in 1..MaxCalls :
          (calls[c].pc = "hash" /\ LockedOut(calls[c].emailLower)) => ~LoginVerify(c)]_vars

\* The time the value of current_session was written or last refreshed: the
\* lastActivity of a session object; a string session is as old as the store
\* the run started from.
WrittenAt(sessionValue) == IF IsLegacy(sessionValue) THEN 0 ELSE sessionValue.lastActivity

\* C37: whatever the format of the stored session (session object, JSON string,
\* plain userId string), getCurrentUser returns no user for a session written
\* or last refreshed more than 24 hours before the read.
C37_NoUserAfterTimeout ==
    [][(session # NoSession /\ now - WrittenAt(session) > SESSION_TIMEOUT /\ GetCurrentUser)
          => result'.value = Null]_vars

\* C38: project.auditCount never decreases and changes only as the last step
\* of a successful saveAudit on the project, by exactly one: no other exported
\* operation, updateProject with any updates included, lowers or rewrites it.
C38_AuditCountOnlyBySave ==
    [][\A p \in DOMAIN projects \cap DOMAIN projects' :
          projects'[p].auditCount # projects[p].auditCount =>
              /\ projects'[p].auditCount = projects[p].auditCount + 1
              /\ twin' # NoValue
              /\ result'.value.projectId = p]_vars

\* C39: deleteAudit(a, p) affects project p only: when the record of a belongs
\* to another project q, audit:a is not removed and the audit index, the audit
\* listing and the project record of q are as before.
C39_DeleteAuditOtherProject ==
    [][\A a \in AuditIds, p \in ProjectIds :
          (a \in DOMAIN audits /\ audits[a].projectId # p /\ DeleteAudit(a, p)) =>
              LET q == audits[a].projectId
              IN  /\ a \in DOMAIN audits' /\ audits'[a] = audits[a]
                  /\ getProjectAudits(q)' = getProjectAudits(q)
                  /\ q \in DOMAIN projectAudits =>
                        /\ q \in DOMAIN projectAudits'
                        /\ projectAudits'[q] = projectAudits[q]
                  /\ q \in DOMAIN projects =>
                        q \in DOMAIN projects' /\ projects'[q] = projects[q]]_vars

\* C40: the output of sanitizeInput holds none of the characters < > " ' /
\* and sanitizeInput is idempotent: a text that was sanitized is not changed by
\* being sanitized again.
C40_SanitizeIdempotent ==
    result.op = "sanitizeInput" =>
        /\ \A i \in 1..Len(result.value) : result.value[i] \notin {"<", ">", "\"", "'", "/"}
        /\ sanitizeInput(result.value) = result.value

\* A sanitized text with escapes in it was sanitized again and is as before.
C40_Witness ==
    /\ result.op = "sanitizeInput"
    /\ twin = result.value
    /\ result.value = <<"&", "l", "t", ";", "&", "&", "#", "x", "2", "F", ";">>

====
